---- MODULE Spec2Model ----
(***************************************************************************)
(* A model of hachip, a CHIP-8 interpreter: the Cpu (src/src/cpu.rs), its  *)
(* Keypad (src/src/keypad.rs), the Ppu framebuffer (src/src/ppu.rs) and    *)
(* the driver loop of main (src/src/main.rs).                              *)
(*                                                                         *)
(* The byte arrays memory ([u8; 4096]) and Ppu.memory ([u8; 2048]) are     *)
(* held sparsely: a function whose domain is the set of indices that hold  *)
(* a non-zero byte.  ArrGet reads 0 everywhere else, ArrSet keeps the      *)
(* representation canonical, so two arrays are equal exactly when their    *)
(* representations are.                                                    *)
(*                                                                         *)
(* A Rust panic (index out of bounds, slice out of range, unwrap of Err)   *)
(* ends the process: the model records it as result = "Panic" and nothing  *)
(* runs afterwards.  A `+=` that takes pc or I past 65535 panics in a      *)
(* build with overflow checks and wraps in a build without them; the       *)
(* repository fixes no profile, so a run is of either build.               *)
(***************************************************************************)
EXTENDS Integers, Sequences, FiniteSets, TLC

VARIABLES
    cpu,        \* Cpu's fields i, pc, memory, v, stack, sp, dt, st
    keypad,     \* Cpu.keypad.keys: [0..15 -> BOOLEAN]
    display,    \* the Ppu's memory behind Cpu.display (sparse)
    opcode,     \* the word last handed to process_opcode, -1 before any
    result,     \* what that call did: "None", "Ok", "Err" or "Panic"
    prev,       \* cpu, display, keypad, callsites as they were before that call
    callsites,  \* history: the pc of every 2nnn not yet returned from
    odd_target, \* history: some executed 1nnn/2nnn/Bnnn set an odd pc
    driver,     \* where the caller stands: main's loop or a unit test
    cycles,     \* number of words dispatched so far
    log         \* history: the registers, x and I of the last Fx55 (stored),
                \* the bytes last loaded (rom), the keys last pressed (pressed),
                \* the calls since the last Fx15/Fx18 (quiet), whether an Fx1E
                \* has run (index_added), the last two draws (drawn), and the
                \* build an overflow has shown the run to be of (build)

vars == <<cpu, keypad, display, opcode, result, prev, callsites, odd_target,
          driver, cycles, log>>

(***************************************************************************)
(* Sizes fixed by the program.                                             *)
(***************************************************************************)
MEMORY_SIZE == 4096
STACK_SIZE == 16
NUM_REGS == 16
NUM_KEYS == 16
PROGRAM_START == 512
WIDTH == 64
HEIGHT == 32
U16_MAX == 65535
SENTINEL == 48879

FONT_SET ==
    << 240, 144, 144, 144, 240,   32,  96,  32,  32, 112,
       240,  16, 240, 128, 240,  240,  16, 240,  16, 240,
       144, 144, 240,  16,  16,  240, 128, 240,  16, 240,
       240, 128, 240, 144, 240,  240,  16,  32,  64,  64,
       240, 144, 240, 144, 240,  240, 144, 240,  16, 240,
       240, 144, 240, 144, 144,  224, 144, 224, 144, 224,
       240, 128, 128, 128, 240,  224, 144, 144, 144, 224,
       240, 128, 240, 128, 240,  240, 128, 240, 128, 128 >>

(***************************************************************************)
(* Arithmetic on bytes.                                                    *)
(***************************************************************************)
RECURSIVE BitAnd(_, _)
BitAnd(a, b) ==
    IF a = 0 \/ b = 0 THEN 0
    ELSE (a % 2) * (b % 2) + 2 * BitAnd(a \div 2, b \div 2)

RECURSIVE BitOr(_, _)
BitOr(a, b) ==
    IF a = 0 THEN b
    ELSE IF b = 0 THEN a
    ELSE (IF a % 2 = 1 \/ b % 2 = 1 THEN 1 ELSE 0) + 2 * BitOr(a \div 2, b \div 2)

RECURSIVE BitXor(_, _)
BitXor(a, b) ==
    IF a = 0 THEN b
    ELSE IF b = 0 THEN a
    ELSE (IF a % 2 = b % 2 THEN 0 ELSE 1) + 2 * BitXor(a \div 2, b \div 2)

\* u8::overflowing_add: the wrapped sum and whether it overflowed
overflowing_add(a, b) == [value |-> (a + b) % 256, did_overflow |-> a + b > 255]

\* u8::overflowing_sub: the wrapped difference and whether it borrowed
overflowing_sub(a, b) == [value |-> (a - b + 256) % 256, did_overflow |-> a < b]

(***************************************************************************)
(* Sparse byte arrays.                                                     *)
(***************************************************************************)
Zeroed == [a \in {} |-> 0]

ArrGet(m, a) == IF a \in DOMAIN m THEN m[a] ELSE 0

\* (written with @@, which builds the function at once: a chain of a
\* hundred pending updates is too deep for TLC to unfold later)
ArrSet(m, a, b) ==
    IF b = 0
    THEN IF a \in DOMAIN m THEN [k \in (DOMAIN m) \ {a} |-> m[k]] @@ Zeroed ELSE m
    ELSE (a :> b) @@ m

(***************************************************************************)
(* Fields of an instruction word.                                          *)
(***************************************************************************)
Family(w) == w \div 4096
FieldX(w) == (w \div 256) % 16
FieldY(w) == (w \div 16) % 16
FieldN(w) == w % 16
FieldKK(w) == w % 256
FieldNNN(w) == w % 4096

(***************************************************************************)
(* Keypad.                                                                 *)
(***************************************************************************)
keypad_new == [k \in 0 .. NUM_KEYS - 1 |-> FALSE]

\* Keypad::reset as it would be if it released nothing
keys_reset_nothing(keys) == keys

\* Keypad::reset
keys_reset(keys) == [k \in DOMAIN keys |-> FALSE]

\* Keypad::press: reset, then set the listed keys
press(keys, indexes) ==
    LET released == keys_reset(keys)
    IN  [k \in DOMAIN keys |-> released[k] \/ k \in indexes]

is_key_down(keys, index) == keys[index]

(***************************************************************************)
(* Ppu.                                                                    *)
(***************************************************************************)
cls == Zeroed

get_pixel(d, x, y) == ArrGet(d, x + y * WIDTH) = 1

\* Ppu::set_pixel as it would be with the rows HEIGHT apart
set_pixel_rows_height_apart(d, x, y, val) == ArrSet(d, x + y * HEIGHT, val)

\* Ppu::set_pixel as it would be if it lit the pixel whatever val is
set_pixel_lighting(d, x, y, val) == ArrSet(d, x + y * WIDTH, 1)

set_pixel(d, x, y, val) == ArrSet(d, x + y * WIDTH, val)

\* The inner loop of Ppu::draw as it would be with `collision = old_value`
\* at every set bit
RECURSIVE draw_bits_last_hit(_, _, _, _, _, _, _)
draw_bits_last_hit(d, x, y, j, row, i, collision) ==
    IF i >= 8 THEN [display |-> d, collision |-> collision]
    ELSE
        LET new_value == (row \div (2 ^ (7 - i))) % 2
        IN  IF new_value = 1
            THEN LET xi == (x + i) % WIDTH
                     yj == (y + j) % HEIGHT
                     old_value == get_pixel(d, xi, yj)
                     display_value == IF old_value THEN 0 ELSE 1
                 IN  draw_bits_last_hit(set_pixel(d, xi, yj, display_value), x, y, j,
                                        row, i + 1, old_value)
            ELSE draw_bits_last_hit(d, x, y, j, row, i + 1, collision)

\* The inner loop of Ppu::draw over the bits of row j, from bit i on (bit 0
\* is the most significant)
RECURSIVE draw_bits(_, _, _, _, _, _, _)
draw_bits(d, x, y, j, row, i, collision) ==
    IF i >= 8 THEN [display |-> d, collision |-> collision]
    ELSE
        LET new_value == (row \div (2 ^ (7 - i))) % 2
        IN  IF new_value = 1
            THEN LET xi == (x + i) % WIDTH
                     yj == (y + j) % HEIGHT
                     old_value == get_pixel(d, xi, yj)
                     display_value == IF old_value THEN 0 ELSE 1
                 IN  draw_bits(set_pixel(d, xi, yj, display_value), x, y, j, row,
                               i + 1, collision \/ old_value)
            ELSE draw_bits(d, x, y, j, row, i + 1, collision)

\* The outer loop of Ppu::draw over the rows of the sprite, from row j on
RECURSIVE draw_rows(_, _, _, _, _, _)
draw_rows(d, x, y, sprite, j, collision) ==
    IF j >= Len(sprite) THEN [display |-> d, collision |-> collision]
    ELSE LET r == draw_bits(d, x, y, j, sprite[j + 1], 0, collision)
         IN  \* (the test has TLC finish row j before it descends to row j + 1)
             IF r.collision
             THEN draw_rows(r.display, x, y, sprite, j + 1, TRUE)
             ELSE draw_rows(r.display, x, y, sprite, j + 1, FALSE)

draw(d, x, y, sprite) == draw_rows(d, x, y, sprite, 0, FALSE)

(***************************************************************************)
(* Cpu: construction, reset, load, fetch.                                  *)
(***************************************************************************)
cpu_new ==
    [ i |-> 0, pc |-> 0, memory |-> Zeroed,
      v |-> [r \in 0 .. NUM_REGS - 1 |-> 0],
      stack |-> [s \in 0 .. STACK_SIZE - 1 |-> 0],
      sp |-> 0, dt |-> 0, st |-> 0 ]

\* Cpu::reset as it would be without `self.memory = [0; 4096]`
reset_keeping_memory(c) ==
    [ c EXCEPT
        !.i = 0,
        !.pc = PROGRAM_START,
        !.v = [r \in 0 .. NUM_REGS - 1 |-> 0],
        !.stack = [s \in 0 .. STACK_SIZE - 1 |-> 0],
        !.sp = 0,
        !.dt = 0,
        !.st = 0,
        !.memory = [a \in 0 .. 79 |-> FONT_SET[a + 1]] @@ c.memory ]

\* Cpu::reset; the display it clears is a separate variable (see Reset)
reset(c) ==
    LET zeroed == [c EXCEPT !.memory = Zeroed]
    IN  [ zeroed EXCEPT
            !.i = 0,
            !.pc = PROGRAM_START,
            !.v = [r \in 0 .. NUM_REGS - 1 |-> 0],
            !.stack = [s \in 0 .. STACK_SIZE - 1 |-> 0],
            !.sp = 0,
            !.dt = 0,
            !.st = 0,
            !.memory = [a \in 0 .. 79 |-> FONT_SET[a + 1]] @@ zeroed.memory ]

\* The loop of Cpu::load from byte number idx on (data is 1-indexed here):
\* memory[k + 512] = data[k] for every k from idx to the end of data.  (The
\* writes are to distinct places, so they are given at once; a ROM of 3584
\* bytes is too long to unfold write by write.)
load_from(m, data, idx) ==
    LET written == idx + PROGRAM_START .. Len(data) - 1 + PROGRAM_START
        byte(a) == data[a - PROGRAM_START + 1]
        kept == {a \in DOMAIN m : a \notin written}
        set == {a \in written : byte(a) # 0}
    IN  [a \in kept \cup set |-> IF a \in written THEN byte(a) ELSE m[a]]

\* Cpu::load: memory[idx + 512] is out of bounds from idx = 3584 on
load_panics(data) == Len(data) + PROGRAM_START > MEMORY_SIZE

load(c, data) == [c EXCEPT !.memory = load_from(c.memory, data, 0)]

\* Cpu::read_word indexes memory[pc] and memory[pc + 1]
read_word_panics(c) == c.pc + 1 >= MEMORY_SIZE

\* read_word as it would be with the low byte first
read_word_little_endian(c) == ArrGet(c.memory, c.pc) + ArrGet(c.memory, c.pc + 1) * 256

read_word(c) == ArrGet(c.memory, c.pc) * 256 + ArrGet(c.memory, c.pc + 1)

(***************************************************************************)
(* Cpu::process_opcode, one operator per arm of its match.  Each gives the *)
(* Cpu and display the arm leaves behind and how it ends: "Ok" (falls      *)
(* through to the timers), "Err" (return Err(..)) or "Panic".  A panicking *)
(* arm is given the state it started from.                                 *)
(***************************************************************************)
Done(c, d) == [cpu |-> c, display |-> d, res |-> "Ok"]
Fault(c, d) == [cpu |-> c, display |-> d, res |-> "Err"]
Panic(c, d) == [cpu |-> c, display |-> d, res |-> "Panic"]

\* 00E0 - CLS
op_cls(c, d) == Done([c EXCEPT !.pc = c.pc + 2], cls)

\* 1nnn - JP addr
op_jp(c, d, w) == Done([c EXCEPT !.pc = FieldNNN(w)], d)

\* 00EE as it would be if it resumed one byte, not one word, past the call
op_ret_one_byte_on(c, d) ==
    IF c.sp >= STACK_SIZE \/ c.sp = 0 THEN Panic(c, d)
    ELSE LET sp1 == c.sp - 1
         IN  Done([c EXCEPT !.sp = sp1,
                            !.pc = c.stack[sp1] + 1,
                            !.stack = [c.stack EXCEPT ![sp1] = SENTINEL]], d)

\* 00EE as it would be if it read the top of the stack and left sp alone
op_ret_keeping_sp(c, d) ==
    IF c.sp >= STACK_SIZE \/ c.sp = 0 THEN Panic(c, d)
    ELSE LET sp1 == c.sp - 1
         IN  Done([c EXCEPT !.pc = c.stack[sp1] + 2,
                            !.stack = [c.stack EXCEPT ![sp1] = SENTINEL]], d)

\* 00EE - RET.  The println! of stack[sp] comes first and is out of bounds
\* when sp = 16; sp -= 1 underflows when sp = 0.
op_ret(c, d) ==
    IF c.sp >= STACK_SIZE \/ c.sp = 0 THEN Panic(c, d)
    ELSE LET sp1 == c.sp - 1
         IN  Done([c EXCEPT !.sp = sp1,
                            !.pc = c.stack[sp1] + 2,
                            !.stack = [c.stack EXCEPT ![sp1] = SENTINEL]], d)

\* 2nnn - CALL addr.  stack[sp] is out of bounds when sp = 16.
op_call(c, d, w) ==
    IF c.sp >= STACK_SIZE THEN Panic(c, d)
    ELSE Done([c EXCEPT !.stack = [c.stack EXCEPT ![c.sp] = c.pc],
                        !.pc = FieldNNN(w),
                        !.sp = c.sp + 1], d)

\* 3xkk - SE Vx, byte
op_se_vx_byte(c, d, w) ==
    Done([c EXCEPT !.pc = IF c.v[FieldX(w)] = FieldKK(w) THEN c.pc + 4 ELSE c.pc + 2], d)

\* 4xkk - SNE Vx, byte
op_sne_vx_byte(c, d, w) ==
    Done([c EXCEPT !.pc = IF c.v[FieldX(w)] # FieldKK(w) THEN c.pc + 4 ELSE c.pc + 2], d)

\* 5xy0 - SE Vx, Vy (the arm takes every word 0x5000..=0x5FFF)
op_se_vx_vy(c, d, w) ==
    Done([c EXCEPT !.pc = IF c.v[FieldX(w)] = c.v[FieldY(w)] THEN c.pc + 4 ELSE c.pc + 2], d)

\* 6xkk - LD Vx, byte
op_ld_vx_byte(c, d, w) ==
    Done([c EXCEPT !.v = [c.v EXCEPT ![FieldX(w)] = FieldKK(w)], !.pc = c.pc + 2], d)

\* 7xkk as it would be if it reported the carry in VF, as 8xy4 does
op_add_vx_byte_carrying(c, d, w) ==
    LET x == FieldX(w)
        sum == overflowing_add(c.v[x], FieldKK(w))
        vf == IF sum.did_overflow THEN 1 ELSE c.v[15]
    IN  Done([c EXCEPT !.v = [c.v EXCEPT ![15] = vf, ![x] = sum.value],
                       !.pc = c.pc + 2], d)

\* 7xkk - ADD Vx, byte
op_add_vx_byte(c, d, w) ==
    LET x == FieldX(w)
    IN  Done([c EXCEPT !.v = [c.v EXCEPT ![x] = overflowing_add(c.v[x], FieldKK(w)).value],
                       !.pc = c.pc + 2], d)

\* 8xy4 as its comment words it: VF = carry, cleared when there is none
op_add_vx_vy_clearing_vf(c, d, w) ==
    LET x == FieldX(w)
        r == overflowing_add(c.v[x], c.v[FieldY(w)])
        v1 == [c.v EXCEPT ![15] = IF r.did_overflow THEN 1 ELSE 0]
    IN  Done([c EXCEPT !.v = [v1 EXCEPT ![x] = r.value], !.pc = c.pc + 2], d)

\* 8xy4 - ADD Vx, Vy: VF is written on overflow only, then Vx
op_add_vx_vy(c, d, w) ==
    LET x == FieldX(w)
        r == overflowing_add(c.v[x], c.v[FieldY(w)])
        v1 == IF r.did_overflow THEN [c.v EXCEPT ![15] = 1] ELSE c.v
    IN  Done([c EXCEPT !.v = [v1 EXCEPT ![x] = r.value], !.pc = c.pc + 2], d)

\* 8xy5 as it would be with VF = NOT borrow of the subtraction
op_sub_vx_vy_not_borrow(c, d, w) ==
    LET x == FieldX(w)
        y == FieldY(w)
        r == overflowing_sub(c.v[x], c.v[y])
        v1 == [c.v EXCEPT ![15] = IF r.did_overflow THEN 0 ELSE 1]
    IN  Done([c EXCEPT !.v = [v1 EXCEPT ![x] = r.value], !.pc = c.pc + 2], d)

\* 8xy5 - SUB Vx, Vy: VF from Vx > Vy, then Vx
op_sub_vx_vy(c, d, w) ==
    LET x == FieldX(w)
        y == FieldY(w)
        r == overflowing_sub(c.v[x], c.v[y])
        v1 == [c.v EXCEPT ![15] = IF c.v[x] > c.v[y] THEN 1 ELSE 0]
    IN  Done([c EXCEPT !.v = [v1 EXCEPT ![x] = r.value], !.pc = c.pc + 2], d)

\* 8xy6 - SHR Vx: VF, then Vx >>= 1
op_shr_vx(c, d, w) ==
    LET x == FieldX(w)
        v1 == [c.v EXCEPT ![15] = c.v[x] % 2]
    IN  Done([c EXCEPT !.v = [v1 EXCEPT ![x] = v1[x] \div 2], !.pc = c.pc + 2], d)

\* 8xy7 - SUBN Vx, Vy: the subtraction the source writes is Vx - Vy
op_subn_vx_vy(c, d, w) ==
    LET x == FieldX(w)
        r == overflowing_sub(c.v[x], c.v[FieldY(w)])
        v1 == [c.v EXCEPT ![15] = IF r.did_overflow THEN 0 ELSE 1]
    IN  Done([c EXCEPT !.v = [v1 EXCEPT ![x] = r.value], !.pc = c.pc + 2], d)

\* 8xyE as it would be with the flag reduced to 1 or 0
op_shl_vx_flag_bit(c, d, w) ==
    LET x == FieldX(w)
        v1 == [c.v EXCEPT ![15] = c.v[x] \div 128]
    IN  Done([c EXCEPT !.v = [v1 EXCEPT ![x] = (v1[x] * 2) % 256], !.pc = c.pc + 2], d)

\* 8xyE - SHL Vx: VF = Vx & 0x80, then Vx <<= 1
op_shl_vx(c, d, w) ==
    LET x == FieldX(w)
        v1 == [c.v EXCEPT ![15] = BitAnd(c.v[x], 128)]
    IN  Done([c EXCEPT !.v = [v1 EXCEPT ![x] = (v1[x] * 2) % 256], !.pc = c.pc + 2], d)

\* 8xy0..8xyE.  An arm that writes VF and then Vx writes the same register
\* twice when x = 0xF: the later write stands.
op_8xy(c, d, w) ==
    LET x == FieldX(w)
        y == FieldY(w)
        subcode == FieldN(w)
        next == c.pc + 2
    IN  CASE subcode = 0 ->
               Done([c EXCEPT !.v = [c.v EXCEPT ![x] = c.v[y]], !.pc = next], d)
          [] subcode = 1 ->
               Done([c EXCEPT !.v = [c.v EXCEPT ![x] = BitOr(c.v[x], c.v[y])], !.pc = next], d)
          [] subcode = 2 ->
               Done([c EXCEPT !.v = [c.v EXCEPT ![x] = BitAnd(c.v[x], c.v[y])], !.pc = next], d)
          [] subcode = 3 ->
               Done([c EXCEPT !.v = [c.v EXCEPT ![x] = BitXor(c.v[x], c.v[y])], !.pc = next], d)
          [] subcode = 4 -> op_add_vx_vy(c, d, w)
          [] subcode = 5 -> op_sub_vx_vy(c, d, w)
          [] subcode = 6 -> op_shr_vx(c, d, w)
          [] subcode = 7 -> op_subn_vx_vy(c, d, w)
          [] subcode = 14 -> op_shl_vx(c, d, w)
          [] OTHER -> Fault([c EXCEPT !.pc = next], d)

\* 9xy0 as it would be with the comparison of 5xy0 copied into it
op_sne_vx_vy_as_se(c, d, w) ==
    Done([c EXCEPT !.pc = IF c.v[FieldX(w)] = c.v[FieldY(w)] THEN c.pc + 4 ELSE c.pc + 2], d)

\* 9xy0 - SNE Vx, Vy (the arm takes every word 0x9000..=0x9FFF)
op_sne_vx_vy(c, d, w) ==
    Done([c EXCEPT !.pc = IF c.v[FieldX(w)] # c.v[FieldY(w)] THEN c.pc + 4 ELSE c.pc + 2], d)

\* Annn as it would be without the mask 0x0FFF
op_ld_i_addr_unmasked(c, d, w) == Done([c EXCEPT !.i = w, !.pc = c.pc + 2], d)

\* Annn - LD I, addr
op_ld_i_addr(c, d, w) == Done([c EXCEPT !.i = FieldNNN(w), !.pc = c.pc + 2], d)

\* Bnnn - JP V0, addr
op_jp_v0(c, d, w) == Done([c EXCEPT !.pc = c.v[0] + FieldNNN(w)], d)

\* Cxkk as it would be if the random byte were ORed with kk
op_rnd_or(c, d, w, random) ==
    Done([c EXCEPT !.v = [c.v EXCEPT ![FieldX(w)] = BitOr(random, FieldKK(w))],
                   !.pc = c.pc + 2], d)

\* Cxkk - RND Vx, byte; random is the byte getrandom returned
op_rnd(c, d, w, random) ==
    Done([c EXCEPT !.v = [c.v EXCEPT ![FieldX(w)] = BitAnd(random, FieldKK(w))],
                   !.pc = c.pc + 2], d)

\* Dxyn - DRW Vx, Vy, nibble.  The slice memory[i .. i + height] is out of
\* range when it ends past the 4096 bytes.
op_drw(c, d, w) ==
    LET x == c.v[FieldX(w)]
        y == c.v[FieldY(w)]
        height == FieldN(w)
    IN  IF c.i + height > MEMORY_SIZE THEN Panic(c, d)
        ELSE LET sprite == [j \in 1 .. height |-> ArrGet(c.memory, c.i + j - 1)]
                 drawn == draw(d, x, y, sprite)
             IN  Done([c EXCEPT !.v = [c.v EXCEPT ![15] = IF drawn.collision THEN 1 ELSE 0],
                                !.pc = c.pc + 2], drawn.display)

\* Ex9E, ExA1 as they would be with the `!` of ExA1 left out
op_exkk_same_test(c, d, w, keys) ==
    LET x == FieldX(w)
        code == FieldKK(w)
    IN  CASE code \in {158, 161} ->
               IF c.v[x] >= NUM_KEYS THEN Panic(c, d)
               ELSE Done([c EXCEPT !.pc = IF is_key_down(keys, c.v[x])
                                          THEN c.pc + 4 ELSE c.pc + 2], d)
          [] OTHER ->
               Fault([c EXCEPT !.pc = c.pc + 2], d)

\* Ex9E, ExA1.  keys[Vx] is out of bounds when Vx > 15.
op_exkk(c, d, w, keys) ==
    LET x == FieldX(w)
        code == FieldKK(w)
    IN  CASE code = 158 ->
               IF c.v[x] >= NUM_KEYS THEN Panic(c, d)
               ELSE Done([c EXCEPT !.pc = IF is_key_down(keys, c.v[x])
                                          THEN c.pc + 4 ELSE c.pc + 2], d)
          [] code = 161 ->
               IF c.v[x] >= NUM_KEYS THEN Panic(c, d)
               ELSE Done([c EXCEPT !.pc = IF ~is_key_down(keys, c.v[x])
                                          THEN c.pc + 4 ELSE c.pc + 2], d)
          [] OTHER ->
               Fault([c EXCEPT !.pc = c.pc + 2], d)

\* The loop of Fx0A as it would be if it left at the first key found down
RECURSIVE wait_key_until_first(_, _, _, _)
wait_key_until_first(c, x, keys, k) ==
    IF k >= NUM_KEYS THEN c
    ELSE IF keys[k]
         THEN [c EXCEPT !.v = [c.v EXCEPT ![x] = k], !.pc = c.pc + 2]
         ELSE wait_key_until_first(c, x, keys, k + 1)

\* The loop of Fx0A from key number k on
RECURSIVE wait_key_from(_, _, _, _)
wait_key_from(c, x, keys, k) ==
    IF k >= NUM_KEYS THEN c
    ELSE IF keys[k]
         THEN wait_key_from([c EXCEPT !.v = [c.v EXCEPT ![x] = k], !.pc = c.pc + 2],
                            x, keys, k + 1)
         ELSE wait_key_from(c, x, keys, k + 1)

\* The loop of Fx55 from register number offset on
RECURSIVE store_regs_from(_, _, _, _)
store_regs_from(m, c, x, offset) ==
    IF offset > x THEN m
    ELSE store_regs_from(ArrSet(m, c.i + offset, c.v[offset]), c, x, offset + 1)

\* The loop of Fx65 as it would be over 0..x instead of 0..=x
RECURSIVE load_regs_below(_, _, _, _)
load_regs_below(v, c, x, offset) ==
    IF offset >= x THEN v
    ELSE load_regs_below([v EXCEPT ![offset] = ArrGet(c.memory, c.i + offset)],
                         c, x, offset + 1)

\* The loop of Fx65 from register number offset on
RECURSIVE load_regs_from(_, _, _, _)
load_regs_from(v, c, x, offset) ==
    IF offset > x THEN v
    ELSE load_regs_from([v EXCEPT ![offset] = ArrGet(c.memory, c.i + offset)],
                        c, x, offset + 1)

\* The writes of Fx33 as they would be with the tens not reduced mod 10
store_bcd_whole_tens(m, i, vx) ==
    LET m1 == ArrSet(m, i, vx \div 100)
        m2 == ArrSet(m1, i + 1, vx \div 10)
    IN  ArrSet(m2, i + 2, (vx % 100) % 10)

\* The three writes of Fx33
store_bcd(m, i, vx) ==
    LET m1 == ArrSet(m, i, vx \div 100)
        m2 == ArrSet(m1, i + 1, (vx \div 10) % 10)
    IN  ArrSet(m2, i + 2, (vx % 100) % 10)

\* Fx07..Fx65: the inner match, then the pc += 2 that follows it
op_fxkk(c, d, w, keys) ==
    LET x == FieldX(w)
        code == FieldKK(w)
        Step(c1) == Done([c1 EXCEPT !.pc = c1.pc + 2], d)
    IN  CASE code = 7 -> Step([c EXCEPT !.v = [c.v EXCEPT ![x] = c.dt]])
          [] code = 10 -> Step(wait_key_from(c, x, keys, 0))
          [] code = 21 -> Step([c EXCEPT !.dt = c.v[x]])
          [] code = 24 -> Step([c EXCEPT !.st = c.v[x]])
          [] code = 30 -> Step([c EXCEPT !.i = c.i + c.v[x]])
          [] code = 41 -> Step([c EXCEPT !.i = c.v[x] * 5])
          [] code = 51 ->
               IF c.i + 2 >= MEMORY_SIZE THEN Panic(c, d)
               ELSE Step([c EXCEPT !.memory = store_bcd(c.memory, c.i, c.v[x])])
          [] code = 85 ->
               IF c.i + x >= MEMORY_SIZE THEN Panic(c, d)
               ELSE Step([c EXCEPT !.memory = store_regs_from(c.memory, c, x, 0)])
          [] code = 101 ->
               IF c.i + x >= MEMORY_SIZE THEN Panic(c, d)
               ELSE Step([c EXCEPT !.v = load_regs_from(c.v, c, x, 0)])
          [] OTHER ->
               Fault([c EXCEPT !.pc = c.pc + 2], d)

\* The top-level fallback arm
op_unhandled(c, d) == Fault([c EXCEPT !.pc = c.pc + 2], d)

\* the timers as they would tick without the test for zero
tick_timers_wrapping(c) ==
    [c EXCEPT !.dt = (c.dt - 1) % 256, !.st = (c.st - 1) % 256]

\* the timers as they would tick if the test were for more than 1
tick_timers_above_one(c) ==
    [c EXCEPT !.dt = IF c.dt > 1 THEN c.dt - 1 ELSE c.dt,
              !.st = IF c.st > 1 THEN c.st - 1 ELSE c.st]

\* "Decrease timers"
tick_timers(c) ==
    [c EXCEPT !.dt = IF c.dt > 0 THEN c.dt - 1 ELSE c.dt,
              !.st = IF c.st > 0 THEN c.st - 1 ELSE c.st]

\* The match of process_opcode: its arms in the order the source lists them
dispatch(c, d, keys, w, random) ==
    CASE w = 224 -> op_cls(c, d)
      [] w \in 4096 .. 8191 -> op_jp(c, d, w)
      [] w = 238 -> op_ret(c, d)
      [] w \in 8192 .. 12287 -> op_call(c, d, w)
      [] w \in 12288 .. 16383 -> op_se_vx_byte(c, d, w)
      [] w \in 16384 .. 20479 -> op_sne_vx_byte(c, d, w)
      [] w \in 20480 .. 24575 -> op_se_vx_vy(c, d, w)
      [] w \in 24576 .. 28671 -> op_ld_vx_byte(c, d, w)
      [] w \in 28672 .. 32767 -> op_add_vx_byte(c, d, w)
      [] w \in 32768 .. 36863 -> op_8xy(c, d, w)
      [] w \in 36864 .. 40959 -> op_sne_vx_vy(c, d, w)
      [] w \in 40960 .. 45055 -> op_ld_i_addr(c, d, w)
      [] w \in 45056 .. 49151 -> op_jp_v0(c, d, w)
      [] w \in 49152 .. 53247 -> op_rnd(c, d, w, random)
      [] w \in 53248 .. 57343 -> op_drw(c, d, w)
      [] w \in 57344 .. 61439 -> op_exkk(c, d, w, keys)
      [] w \in 61440 .. 65535 -> op_fxkk(c, d, w, keys)
      [] OTHER -> op_unhandled(c, d)

\* the arms add to pc and i as to integers: c is past the range of a u16
overflows(c) == c.pc > U16_MAX \/ c.i > U16_MAX

\* pc and i as wrapping u16 additions leave them
wrapping(c) == [c EXCEPT !.pc = @ % (U16_MAX + 1), !.i = @ % (U16_MAX + 1)]

\* Can a `+=` of process_opcode leave the range of a u16 from c?  pc grows
\* by at most 2 for each key and 2 more (Fx0A), I by at most 255 (Fx1E),
\* and 00EE adds 2 to a stack entry.
may_overflow(c) ==
    \/ c.pc + 2 * NUM_KEYS + 2 > U16_MAX
    \/ c.i + 255 > U16_MAX
    \/ \E s \in DOMAIN c.stack : c.stack[s] + 2 > U16_MAX

\* process_opcode as it would be if the timers ticked before an arm's Err
\* is returned
process_opcode_ticking_faults(c, d, keys, w, random, checks) ==
    LET r == dispatch(c, d, keys, w, random)
    IN  IF r.res = "Panic" \/ (checks /\ overflows(r.cpu))
        THEN Panic(c, d)
        ELSE [r EXCEPT !.cpu = tick_timers(wrapping(r.cpu))]

\* process_opcode as it would be if the timers ticked ahead of the match
process_opcode_ticking_first(c, d, keys, w, random, checks) ==
    LET r == dispatch(tick_timers(c), d, keys, w, random)
    IN  IF r.res = "Panic" \/ (checks /\ overflows(r.cpu))
        THEN Panic(c, d)
        ELSE IF r.res = "Err" THEN Fault([c EXCEPT !.pc = wrapping(r.cpu).pc], d)
        ELSE Done(wrapping(r.cpu), r.display)

\* Cpu::process_opcode: the match, then the timers when no arm returned.
\* pc and i are u16: a `+=` that leaves the range panics in a build with
\* overflow checks (checks) and wraps in one without.
process_opcode(c, d, keys, w, random, checks) ==
    LET r == dispatch(c, d, keys, w, random)
    IN  IF r.res = "Panic" \/ (checks /\ overflows(r.cpu))
        THEN Panic(c, d)
        ELSE IF r.res = "Err" THEN Fault(wrapping(r.cpu), r.display)
        ELSE Done(tick_timers(wrapping(r.cpu)), r.display)

(***************************************************************************)
(* Bounds of the model and the inputs it draws.                            *)
(***************************************************************************)
MaxFixture == 8
MaxProgWords == 3
MaxCycles == 3

\* the counts of calls kept as history stop here: past the 255 calls a
\* timer can take to run out
MaxCount == 260

\* bytes at and next to the edges of u8 arithmetic
EdgeBytes == <<0, 1, 2, 127, 128, 129, 254, 255>>
TimerEdge == <<0, 1, 255>>
KeyFixtures == <<{}, {4}, {1, 2, 15}, 0 .. 15>>
SpriteBytes == <<48, 3, 1>>

Words == 0 .. 65535

\* words a driven program is made of: an undefined word, jumps and calls
\* to even and odd addresses and to the last byte of memory, a return, a
\* register load, a key wait
ProgWords ==
    {\h0000, \h1204, \h1203, \h1FFF, \h2204, \h00EE, \h6003, \hB202, \hF00A}
Programs == UNION {[1 .. n -> ProgWords] : n \in 0 .. MaxProgWords}
PressSets == {{}, {1, 2}}

\* the bytes of a program, each word big-endian
ProgramBytes(p) ==
    [k \in 1 .. 2 * Len(p) |->
        IF k % 2 = 1 THEN p[(k + 1) \div 2] \div 256 ELSE p[k \div 2] % 256]

\* every value of a u8
Bytes == 0 .. 255

\* the byte getrandom fills is any byte; it matters to Cxkk alone
RandomFor(w) == IF Family(w) = 12 THEN Bytes ELSE {0}

\* the words whose effect is told for every byte of Vx: 8xy6, 8xyE, Fx33,
\* Ex9E, ExA1, for every x and y
ByteWords ==
    {\h8006 + 256 * x + 16 * y : x \in 0 .. 15, y \in 0 .. 15}
    \cup {\h800E + 256 * x + 16 * y : x \in 0 .. 15, y \in 0 .. 15}
    \cup {\hF033 + 256 * x : x \in 0 .. 15}
    \cup {\hE09E + 256 * x : x \in 0 .. 15}
    \cup {\hE0A1 + 256 * x : x \in 0 .. 15}

\* I at the sprite of the fixtures and at the last place Fx33 can write from
ByteIs == <<\h300, \hFFD>>

\* how many register loads a test makes between Fx55 and Fx65
MaxScrambles == 2

\* 6xkk words that change V0, V2 and VF after they were stored
ScrambleWords == {\h6009, \h62FF, \h6F00}

\* a ROM of n bytes, none of them 0
RomOfLen(n) == [k \in 1 .. n |-> (k % 251) + 1]

\* the ROMs a reset machine is loaded with: the programs, a ROM of an odd
\* length, the longest ROM that fits and the shortest that does not
LoadImages ==
    {ProgramBytes(p) : p \in Programs}
    \cup {<<\hAB>>, RomOfLen(MEMORY_SIZE - PROGRAM_START),
          RomOfLen(MEMORY_SIZE - PROGRAM_START + 1)}

\* the index lists handed to Keypad::press: every choice among these keys
KeyLists == SUBSET {0, 1, 2, 7, 8, 14, 15}

\* how many calls a drawing test makes
MaxDraws == 4

\* Dxyn at (V0, V0) and (V0, V1) with 1, 2 and 15 rows, and Annn to the
\* three sprite bytes of the fixtures
DrawWords ==
    {\hD001, \hD002, \hD00F, \hD011, \hD012, \hD01F, \hA300, \hA301, \hA302}

\* a program of n nested calls, each followed by the return its caller
\* resumes at, and the return of the innermost subroutine
CallChain(n) ==
    [k \in 1 .. 2 * n + 1 |-> IF k % 2 = 1 /\ k < 2 * n THEN \h2200 + 2 * (k + 1) ELSE \h00EE]

\* programs the driver runs for as long as they go: calls nested up to and
\* past the 16 entries of the stack, a call of itself, a call and return in
\* a loop; timers set once, set again and again, set before a fault; I set
\* by Annn, Fx29 and Fx1E, once and in a loop
RunPrograms ==
    {CallChain(n) : n \in {1, 15, 16, 17}}
    \cup {<<\h2200>>, <<\h2204, \h1200, \h00EE>>}
    \cup {<<\h60FF, \hF015, \hF018, \h1206>>, <<\h60FF, \hF015, \h1202>>,
          <<\h60FF, \hF018, \h1202>>, <<\h6003, \hF015, \h0000>>}
    \cup {<<\hAFFF, \h6001, \hF01E, \h1206>>, <<\hAFFF, \h60FF, \hF029, \h1206>>,
          <<\h6080, \hAFFF, \hF01E, \h1204>>}


\* the Cxkk words, for every x and every kk
RndWords == \hC000 .. \hCFFF

\* the words one call is made of on every fixture: every word but the
\* Cxkk words, and the Cxkk words with kk among the edge bytes, each of
\* which is called with every random byte
DecodeWords ==
    (Words \ RndWords)
    \cup {\hC000 + 256 * x + EdgeBytes[k] : x \in 0 .. NUM_REGS - 1, k \in DOMAIN EdgeBytes}

\* the fixtures Cxkk is called on with every random byte
RndFixtures == {0, 5}

CallTargets == {\h0ABC, \h0301}
CallPcs == {\h23}

(***************************************************************************)
(* A unit test's fixture number f, set up as the tests of cpu.rs do: a     *)
(* fresh Cpu whose fields are then assigned.  It stands inside one         *)
(* subroutine called from 0x23 (tests::opcode_call), I points at a sprite, *)
(* the registers run through EdgeBytes starting at place f, and the timers *)
(* and held keys run through their own lists.                              *)
(***************************************************************************)
FixtureCpu(f) ==
    [ cpu_new EXCEPT
        !.pc = \h0ABC,
        !.sp = 1,
        !.stack = [cpu_new.stack EXCEPT ![0] = \h23],
        !.i = \h300,
        !.memory = [a \in \h300 .. \h302 |-> SpriteBytes[a - \h300 + 1]],
        !.v = [r \in 0 .. NUM_REGS - 1 |-> EdgeBytes[((r + f) % 8) + 1]],
        !.dt = TimerEdge[(f % 3) + 1],
        !.st = TimerEdge[((f \div 3) % 3) + 1] ]

FixtureKeys(f) == press(keypad_new, KeyFixtures[(f % 4) + 1])

\* fixture f with the registers set from byte b, 16 apart, so that every
\* register takes every value as b runs through the bytes
ByteFixture(b, f) ==
    [ FixtureCpu(f) EXCEPT
        !.v = [r \in 0 .. NUM_REGS - 1 |-> (b + 16 * r) % 256],
        !.i = ByteIs[(f % 2) + 1] ]

\* the framebuffer after the first draw of tests::draw_detects_collisions
FixtureDisplay == draw(Zeroed, 0, 0, <<48>>).display

Snapshot == [cpu |-> cpu, display |-> display, keypad |-> keypad, callsites |-> callsites]

(***************************************************************************)
(* Actions.                                                                *)
(***************************************************************************)
\* a unit test ignores the Result it is given and dies of a panic
TestEnds(r) == IF r.res = "Panic" THEN "dead" ELSE "test"

\* Cpu::execute_cycle unwraps the Result: Err panics as well
CycleEnds(r) == IF r.res = "Ok" THEN "poll" ELSE "dead"

\* a count of calls, which stops counting at MaxCount
Counted(n) == IF n < MaxCount THEN n + 1 ELSE n

\* what a Dxyn started from, drew and left behind
Drawn(w, r) ==
    [ x |-> cpu.v[FieldX(w)],
      y |-> cpu.v[FieldY(w)],
      sprite |-> [j \in 1 .. FieldN(w) |-> ArrGet(cpu.memory, cpu.i + j - 1)],
      before |-> display,
      after |-> r.display,
      collision |-> r.cpu.v[15] = 1 ]

\* The history after a call of process_opcode(w) that returned Ok with r:
\* the registers an Fx55 stored, the calls made since the last Fx15 and
\* since the last Fx18, whether an Fx1E has run, and the last two draws.
Logged(w, r) ==
    LET fx(kk) == Family(w) = 15 /\ FieldKK(w) = kk
    IN  [ log EXCEPT
            !.stored = IF fx(\h55)
                       THEN <<[v |-> cpu.v, x |-> FieldX(w), i |-> cpu.i]>>
                       ELSE @,
            !.quiet = [dt |-> IF fx(\h15) THEN 0 ELSE Counted(@.dt),
                       st |-> IF fx(\h18) THEN 0 ELSE Counted(@.st)],
            !.index_added = @ \/ fx(\h1E),
            !.drawn = IF Family(w) # 13 THEN @
                      ELSE IF @ = <<>> THEN <<Drawn(w, r)>>
                      ELSE <<@[Len(@)], Drawn(w, r)>> ]

\* The builds a call may be of, given what it does with overflow checks
\* (rc) and without (rw): where the two differ the build shows, and it is
\* the build every later call is of; TRUE stands for both where they agree.
Builds(rc, rw) ==
    IF rc = rw THEN {TRUE}
    ELSE IF log.build = "either" THEN BOOLEAN
    ELSE {log.build = "checked"}

\* One call of process_opcode(w) and the history kept of it, made by
\* execute_cycle (in_cycle) or by a unit test.
Dispatch(w, random, in_cycle) ==
    \E rc \in {process_opcode(cpu, display, keypad, w, random, TRUE)} :
    \E rw \in {IF may_overflow(cpu)
                THEN process_opcode(cpu, display, keypad, w, random, FALSE)
                ELSE rc} :
    \E checks \in Builds(rc, rw) :
    LET r == IF checks THEN rc ELSE rw
        ok == r.res = "Ok"
        seen == IF rc = rw THEN log.build
                ELSE IF checks THEN "checked" ELSE "wrapping"
    IN  /\ cpu' = r.cpu
        /\ display' = r.display
        /\ opcode' = w
        /\ result' = r.res
        /\ prev' = Snapshot
        /\ callsites' =
             IF ok /\ Family(w) = 2 THEN Append(callsites, cpu.pc)
             ELSE IF ok /\ w = \h00EE /\ Len(callsites) > 0
                  THEN SubSeq(callsites, 1, Len(callsites) - 1)
                  ELSE callsites
        /\ odd_target' = (odd_target \/ (ok /\ Family(w) \in {1, 2, 11} /\ r.cpu.pc % 2 = 1))
        /\ driver' = (IF in_cycle THEN CycleEnds(r) ELSE TestEnds(r))
        /\ cycles' = Counted(cycles)
        /\ log' = [(IF ok THEN Logged(w, r) ELSE log) EXCEPT !.build = seen]
        /\ UNCHANGED keypad

\* a test calls process_opcode(w) once on its fixture
TestOpcode(w, random) ==
    /\ driver = "test"
    /\ result = "None"
    /\ Dispatch(w, random, FALSE)

\* a test calls process_opcode(2nnn), as long as it has not returned yet
TestCall(nnn) ==
    /\ driver = "test"
    /\ opcode # \h00EE
    /\ Dispatch(\h2000 + nnn, 0, FALSE)

\* a test calls process_opcode(00EE)
TestRet ==
    /\ driver = "test"
    /\ Dispatch(\h00EE, 0, FALSE)

\* a test stores the registers: process_opcode(Fx55), once
TestStoreRegs(x) ==
    /\ driver = "test"
    /\ log.stored = <<>>
    /\ Dispatch(\hF055 + 256 * x, 0, FALSE)

\* the test then changes registers: process_opcode(6xkk)
TestChangeReg(w) ==
    /\ driver = "test"
    /\ log.stored # <<>>
    /\ Family(opcode) # 15 \/ FieldKK(opcode) # \h65
    /\ cycles <= MaxScrambles
    /\ Dispatch(w, 0, FALSE)

\* and loads them back: process_opcode(Fx65), which ends the test
TestLoadRegs(x) ==
    /\ driver = "test"
    /\ log.stored # <<>>
    /\ Family(opcode) # 15 \/ FieldKK(opcode) # \h65
    /\ Dispatch(\hF065 + 256 * x, 0, FALSE)

\* a test draws, or moves I, again and again (tests::draw_detects_collisions)
TestDraw(w) ==
    /\ driver = "test"
    /\ cycles < MaxDraws
    /\ Dispatch(w, 0, FALSE)

\* init_cpu: cpu.reset()
Reset ==
    /\ driver = "init_cpu"
    /\ cpu' = reset(cpu)
    /\ display' = cls
    /\ driver' = "load"
    /\ UNCHANGED <<keypad, opcode, result, prev, callsites, odd_target, cycles, log>>

\* init_cpu: cpu.load(game)
Load(data) ==
    /\ driver = "load"
    /\ IF load_panics(data)
       THEN /\ result' = "Panic"
            /\ driver' = "dead"
            /\ UNCHANGED cpu
       ELSE /\ cpu' = load(cpu, data)
            /\ driver' = "poll"
            /\ UNCHANGED result
    /\ log' = [log EXCEPT !.rom = data]
    /\ UNCHANGED <<keypad, display, opcode, prev, callsites, odd_target, cycles>>

\* main: a Quit event breaks the loop
Quit ==
    /\ driver = "poll"
    /\ driver' = "exit"
    /\ UNCHANGED <<cpu, keypad, display, opcode, result, prev, callsites,
                   odd_target, cycles, log>>

\* main: cpu.keypad.press(keys)
Press(indexes) ==
    /\ driver = "poll"
    /\ cycles < MaxCycles
    /\ keypad' = press(keypad, indexes)
    /\ log' = [log EXCEPT !.pressed = indexes]
    /\ driver' = "cycle"
    /\ UNCHANGED <<cpu, display, opcode, result, prev, callsites, odd_target, cycles>>

\* main: cpu.keypad.press(keys), in a loop that goes on until a Quit event
PollKeys(indexes) ==
    /\ driver = "poll"
    /\ keypad' = press(keypad, indexes)
    /\ log' = [log EXCEPT !.pressed = indexes]
    /\ driver' = "cycle"
    /\ UNCHANGED <<cpu, display, opcode, result, prev, callsites, odd_target, cycles>>

\* Keypad::press(indexes) called on its own, any number of times
PressKeys(indexes) ==
    /\ driver = "keys"
    /\ keypad' = press(keypad, indexes)
    /\ prev' = Snapshot
    /\ log' = [log EXCEPT !.pressed = indexes]
    /\ UNCHANGED <<cpu, display, opcode, result, callsites, odd_target, driver, cycles>>

\* main: cpu.execute_cycle()
ExecuteCycle ==
    /\ driver = "cycle"
    /\ IF read_word_panics(cpu)
       THEN /\ result' = "Panic"
            /\ driver' = "dead"
            /\ opcode' = -1
            /\ prev' = Snapshot
            /\ cycles' = cycles + 1
            /\ UNCHANGED <<cpu, keypad, display, callsites, odd_target, log>>
       ELSE \E random \in RandomFor(read_word(cpu)) :
                Dispatch(read_word(cpu), random, TRUE)

(***************************************************************************)
(* Specifications.                                                         *)
(***************************************************************************)
\* nothing stored, loaded or pressed yet
NoLog ==
    [ stored |-> <<>>, rom |-> <<>>, pressed |-> {},
      quiet |-> [dt |-> 0, st |-> 0], index_added |-> FALSE, drawn |-> <<>>,
      build |-> "either" ]

NoHistory(c, d) == [cpu |-> c, display |-> d, keypad |-> keypad_new, callsites |-> <<>>]

\* main: the Cpu as Cpu::new and Ppu::new leave it, before init_cpu resets it
Init ==
    /\ cpu = cpu_new
    /\ keypad = keypad_new
    /\ display = Zeroed
    /\ opcode = -1
    /\ result = "None"
    /\ prev = NoHistory(cpu_new, Zeroed)
    /\ callsites = <<>>
    /\ odd_target = FALSE
    /\ driver = "init_cpu"
    /\ cycles = 0
    /\ log = NoLog

Next ==
    \/ Reset
    \/ \E p \in Programs : Load(ProgramBytes(p))
    \/ Quit
    \/ \E indexes \in PressSets : Press(indexes)
    \/ ExecuteCycle

Spec == Init /\ [][Next]_vars

\* main with a ROM of RunPrograms, looping for as long as the ROM runs
Running ==
    \/ Reset
    \/ \E p \in RunPrograms : Load(ProgramBytes(p))
    \/ \E indexes \in PressSets : PollKeys(indexes)
    \/ ExecuteCycle

NextRun == Running \/ Quit

SpecRun == Init /\ [][NextRun]_vars

\* the loop of main goes round as long as no Quit event comes and no cycle
\* panics: each iteration ends with a sleep and starts the next
FairRun == SpecRun /\ WF_vars(Running)

\* one process_opcode call on each fixture, for every word of DecodeWords
InitDecode ==
    \E f \in 0 .. MaxFixture :
        /\ cpu = FixtureCpu(f)
        /\ keypad = FixtureKeys(f)
        /\ display = FixtureDisplay
        /\ opcode = -1
        /\ result = "None"
        /\ prev = [cpu |-> FixtureCpu(f), display |-> FixtureDisplay,
                   keypad |-> FixtureKeys(f), callsites |-> <<\h23>>]
        /\ callsites = <<\h23>>
        /\ odd_target = TRUE
        /\ driver = "test"
        /\ cycles = 0
        /\ log = NoLog

NextDecode ==
    /\ result = "None"
    /\ \E w \in DecodeWords : \E random \in RandomFor(w) : TestOpcode(w, random)

SpecDecode == InitDecode /\ [][NextDecode]_vars

\* nested calls, then returns, on a fresh Cpu placed at a call site
\* (tests::opcode_call, tests::opcode_ret)
InitCall ==
    \E p \in CallPcs :
        /\ cpu = [cpu_new EXCEPT !.pc = p]
        /\ keypad = keypad_new
        /\ display = Zeroed
        /\ opcode = -1
        /\ result = "None"
        /\ prev = NoHistory([cpu_new EXCEPT !.pc = p], Zeroed)
        /\ callsites = <<>>
        /\ odd_target = (p % 2 = 1)
        /\ driver = "test"
        /\ cycles = 0
        /\ log = NoLog

NextCall ==
    \/ \E nnn \in CallTargets : TestCall(nnn)
    \/ TestRet

SpecCall == InitCall /\ [][NextCall]_vars

\* one process_opcode call of a word of ByteWords, for every byte in Vx
InitBytes ==
    \E b \in Bytes : \E f \in 0 .. Len(KeyFixtures) - 1 :
        /\ cpu = ByteFixture(b, f)
        /\ keypad = FixtureKeys(f)
        /\ display = FixtureDisplay
        /\ opcode = -1
        /\ result = "None"
        /\ prev = [cpu |-> ByteFixture(b, f), display |-> FixtureDisplay,
                   keypad |-> FixtureKeys(f), callsites |-> <<\h23>>]
        /\ callsites = <<\h23>>
        /\ odd_target = TRUE
        /\ driver = "test"
        /\ cycles = 0
        /\ log = NoLog

NextBytes ==
    /\ result = "None"
    /\ \E w \in ByteWords : TestOpcode(w, 0)

SpecBytes == InitBytes /\ [][NextBytes]_vars

\* one process_opcode call of a Cxkk word, for every byte getrandom can
\* return
InitRnd == InitDecode /\ \E f \in RndFixtures : cpu = FixtureCpu(f)

NextRnd ==
    /\ result = "None"
    /\ \E w \in RndWords : \E random \in Bytes : TestOpcode(w, random)

SpecRnd == InitRnd /\ [][NextRnd]_vars

\* Fx55, register changes, Fx65 on each fixture (tests::opcode_ld_i_vx,
\* tests::opcode_ld_vx_i)
NextRegs ==
    \/ \E x \in 0 .. NUM_REGS - 1 : TestStoreRegs(x)
    \/ \E w \in ScrambleWords : TestChangeReg(w)
    \/ \E x \in 0 .. NUM_REGS - 1 : TestLoadRegs(x)

SpecRegs == InitDecode /\ [][NextRegs]_vars

\* reset() and load(P) on a Cpu that has been in use: each fixture
InitReload ==
    \E f \in 0 .. MaxFixture :
        /\ cpu = FixtureCpu(f)
        /\ keypad = FixtureKeys(f)
        /\ display = FixtureDisplay
        /\ opcode = -1
        /\ result = "None"
        /\ prev = [cpu |-> FixtureCpu(f), display |-> FixtureDisplay,
                   keypad |-> FixtureKeys(f), callsites |-> <<>>]
        /\ callsites = <<>>
        /\ odd_target = FALSE
        /\ driver = "init_cpu"
        /\ cycles = 0
        /\ log = NoLog

NextReload ==
    \/ Reset
    \/ \E data \in LoadImages : Load(data)

SpecReload == InitReload /\ [][NextReload]_vars

\* any sequence of Keypad::press calls on a new Keypad
InitKeys ==
    /\ cpu = cpu_new
    /\ keypad = keypad_new
    /\ display = Zeroed
    /\ opcode = -1
    /\ result = "None"
    /\ prev = NoHistory(cpu_new, Zeroed)
    /\ callsites = <<>>
    /\ odd_target = FALSE
    /\ driver = "keys"
    /\ cycles = 0
    /\ log = NoLog

NextKeys == \E indexes \in KeyLists : PressKeys(indexes)

SpecKeys == InitKeys /\ [][NextKeys]_vars

\* sequences of draws on each fixture, whose display has pixels lit
NextDraw == \E w \in DrawWords : TestDraw(w)

SpecDraw == InitDecode /\ [][NextDraw]_vars

(***************************************************************************)
(* What the specification says, stated over the last call and the state    *)
(* it started from.                                                        *)
(***************************************************************************)
\* the rows of the instruction table of spec.md, section 4.2
InTable(w) ==
    \/ w = \h00E0
    \/ w = \h00EE
    \/ Family(w) \in {1, 2, 3, 4, 6, 7, 10, 11, 12, 13}
    \/ Family(w) \in {5, 9} /\ FieldN(w) = 0
    \/ Family(w) = 8 /\ FieldN(w) \in {0, 1, 2, 3, 4, 5, 6, 7, 14}
    \/ Family(w) = 14 /\ FieldKK(w) \in {\h9E, \hA1}
    \/ Family(w) = 15 /\ FieldKK(w) \in {\h07, \h0A, \h15, \h18, \h1E, \h29, \h33, \h55, \h65}

Is8xy(w, n) == Family(w) = 8 /\ FieldN(w) = n
PrevVx == prev.cpu.v[FieldX(opcode)]
PrevVy == prev.cpu.v[FieldY(opcode)]
Max0(n) == IF n > 0 THEN n ELSE 0

\* C1: k nested 2nnn calls (s + k <= 16) followed by 00EE returns resume at
\* the call sites in LIFO order: every return that has a call outstanding
\* succeeds, sets pc to the address of the matching 2nnn plus 2 and takes sp
\* back by one, to the starting sp once every call has returned.
C1_CallReturnRoundTrip ==
    (opcode = \h00EE /\ Len(prev.callsites) >= 1) =>
        /\ result = "Ok"
        /\ cpu.pc = prev.callsites[Len(prev.callsites)] + 2
        /\ cpu.sp = prev.cpu.sp - 1
        /\ cpu.sp = Len(callsites)

\* C2: a call that reports the unrecognized-opcode fault has advanced pc by
\* exactly 2 and changed nothing else: registers, I, memory, stack, sp and
\* both timers (no tick), the display and the key state are as before.
C2_FaultEffect ==
    result = "Err" =>
        /\ cpu = [prev.cpu EXCEPT !.pc = prev.cpu.pc + 2]
        /\ display = prev.display
        /\ keypad = prev.keypad

\* C2 witness: a faulting Fx?? word met running timers and left them alone
C2_Witness ==
    /\ result = "Err"
    /\ Family(opcode) = 15
    /\ prev.cpu.dt = 255 /\ cpu.dt = 255
    /\ prev.cpu.st = 1 /\ cpu.st = 1
    /\ cpu.pc = prev.cpu.pc + 2

\* C3: process_opcode reports the fault for exactly the words that match no
\* row of the instruction table.
C3_FaultExactlyUndefined ==
    result \in {"Ok", "Err"} => (result = "Err" <=> ~InTable(opcode))

\* C4: when the word at pc is unrecognized, execute_cycle returns to its
\* caller with the machine still runnable and pc advanced by 2.
C4_FaultRecoverable ==
    result = "Err" => (driver # "dead" /\ cpu.pc = prev.cpu.pc + 2)

\* C5: every successfully dispatched cycle that is not Fx15/Fx18 ends with
\* each timer one lower than before, or still 0.
C5_TimerTick ==
    (result = "Ok" /\ ~(Family(opcode) = 15 /\ FieldKK(opcode) \in {\h15, \h18})) =>
        /\ cpu.dt = Max0(prev.cpu.dt - 1)
        /\ cpu.st = Max0(prev.cpu.st - 1)

\* C5 witness: a jump (pc set directly) ticked the delay timer from 255 and
\* left the sound timer at 0
C5_Witness ==
    /\ result = "Ok"
    /\ Family(opcode) = 1
    /\ prev.cpu.dt = 255 /\ cpu.dt = 254
    /\ prev.cpu.st = 0 /\ cpu.st = 0

\* C6 as stated: from reset on, pc is even after every completed cycle of
\* any program.
C6_PcAligned ==
    driver \in {"load", "poll", "cycle", "exit"} => cpu.pc % 2 = 0

\* C6 amended: from reset on, pc is even after every completed cycle as long
\* as no executed 1nnn, 2nnn or Bnnn has set an odd address.
C6_PcAlignedEvenTargets ==
    (driver \in {"load", "poll", "cycle", "exit"} /\ ~odd_target) => cpu.pc % 2 = 0

\* C6 witness: a call to an even address has returned
C6_Witness ==
    /\ driver = "poll"
    /\ result = "Ok"
    /\ opcode = \h00EE
    /\ ~odd_target
    /\ cpu.pc = PROGRAM_START + 2

\* does the sprite Dxyn draws hit a pixel that was lit before the call
DrwCollides ==
    \E j \in 0 .. FieldN(opcode) - 1 : \E i \in 0 .. 7 :
        /\ (ArrGet(prev.cpu.memory, prev.cpu.i + j) \div (2 ^ (7 - i))) % 2 = 1
        /\ get_pixel(prev.display, (PrevVx + i) % WIDTH, (PrevVy + j) % HEIGHT)

\* C7: after an instruction with a documented flag side effect, for every
\* x including 0xF, VF holds the documented flag value.
C7_FlagRule ==
    result = "Ok" =>
        /\ (Is8xy(opcode, 4) /\ PrevVx + PrevVy > 255) => cpu.v[15] = 1
        /\ Is8xy(opcode, 5) => cpu.v[15] = (IF PrevVx > PrevVy THEN 1 ELSE 0)
        /\ Is8xy(opcode, 6) => cpu.v[15] = PrevVx % 2
        /\ Is8xy(opcode, 7) => cpu.v[15] = (IF PrevVx > PrevVy THEN 0 ELSE 1)
        /\ Is8xy(opcode, 14) => cpu.v[15] = BitAnd(PrevVx, 128)
        /\ Family(opcode) = 13 => cpu.v[15] = (IF DrwCollides THEN 1 ELSE 0)

\* C8: for x # 0xF, 8xy4 sets Vx = (Vx + Vy) mod 256, advances pc by 2, and
\* sets VF = 1 on a carry, leaving VF as it was otherwise.
C8_AddCarry ==
    (Is8xy(opcode, 4) /\ FieldX(opcode) # 15) =>
        /\ result = "Ok"
        /\ cpu.v[FieldX(opcode)] = (PrevVx + PrevVy) % 256
        /\ cpu.pc = prev.cpu.pc + 2
        /\ cpu.v[15] = (IF PrevVx + PrevVy > 255 THEN 1 ELSE prev.cpu.v[15])

\* C8 witness: 8014 added without carry and VF kept its 255
C8_Witness ==
    /\ opcode = \h8014
    /\ result = "Ok"
    /\ prev.cpu.v[15] = 255
    /\ PrevVx + PrevVy = 1
    /\ cpu.v[0] = 1
    /\ cpu.v[15] = 255

\* C9: for x # 0xF, 8xy7 sets Vx = (Vy - Vx) mod 256, VF = 0 if Vx > Vy
\* before and 1 otherwise, and advances pc by 2.
C9_ReverseSubtract ==
    (Is8xy(opcode, 7) /\ FieldX(opcode) # 15) =>
        /\ result = "Ok"
        /\ cpu.v[FieldX(opcode)] = (PrevVy - PrevVx + 256) % 256
        /\ cpu.v[15] = (IF PrevVx > PrevVy THEN 0 ELSE 1)
        /\ cpu.pc = prev.cpu.pc + 2

\* C10: for x # 0xF, 8xy5 sets Vx = (Vx - Vy) mod 256 and VF = 1 exactly
\* when Vx > Vy before (so VF = 0 when they are equal); pc advances by 2.
C10_Subtract ==
    (Is8xy(opcode, 5) /\ FieldX(opcode) # 15) =>
        /\ result = "Ok"
        /\ cpu.v[FieldX(opcode)] = (PrevVx - PrevVy + 256) % 256
        /\ cpu.v[15] = (IF PrevVx > PrevVy THEN 1 ELSE 0)
        /\ cpu.pc = prev.cpu.pc + 2

\* C10 witness: 8085 subtracted equal registers, VF went from 255 to 0
C10_Witness ==
    /\ opcode = \h8085
    /\ result = "Ok"
    /\ PrevVx = PrevVy
    /\ prev.cpu.v[15] = 255
    /\ cpu.v[0] = 0
    /\ cpu.v[15] = 0

\* registers other than Vx and VF are as they were before the call
OtherRegsKept ==
    \A r \in 0 .. NUM_REGS - 1 :
        r \notin {FieldX(opcode), 15} => cpu.v[r] = prev.cpu.v[r]

\* C11: for x # 0xF and every Vx, 8xy6 sets VF = Vx & 1 and Vx = Vx div 2,
\* 8xyE sets VF = Vx & 0x80 (0x80 or 0, never 1) and Vx = (2 * Vx) mod 256;
\* both advance pc by 2 and leave every register but Vx and VF alone, Vy
\* playing no part.
C11_ShiftRules ==
    /\ (Is8xy(opcode, 6) /\ FieldX(opcode) # 15) =>
           /\ result = "Ok"
           /\ cpu.v[15] = PrevVx % 2
           /\ cpu.v[FieldX(opcode)] = PrevVx \div 2
           /\ cpu.pc = prev.cpu.pc + 2
           /\ OtherRegsKept
    /\ (Is8xy(opcode, 14) /\ FieldX(opcode) # 15) =>
           /\ result = "Ok"
           /\ cpu.v[15] = (IF PrevVx >= 128 THEN 128 ELSE 0)
           /\ cpu.v[FieldX(opcode)] = (2 * PrevVx) % 256
           /\ cpu.pc = prev.cpu.pc + 2
           /\ OtherRegsKept

\* C11 witness: 801E met V0 = 0b10000001 and left VF = 0x80, V0 = 2, V1 as
\* it was
C11_Witness ==
    /\ opcode = \h801E
    /\ result = "Ok"
    /\ PrevVx = 129
    /\ cpu.v[15] = 128
    /\ cpu.v[0] = 2
    /\ cpu.v[1] = prev.cpu.v[1] /\ cpu.v[1] = 145

\* everything of the Cpu but pc and the timers is as it was before the call
OnlyPcMoved ==
    [cpu EXCEPT !.pc = 0, !.dt = 0, !.st = 0] = [prev.cpu EXCEPT !.pc = 0, !.dt = 0, !.st = 0]

\* C12: 3xkk skips (pc + 4) iff Vx = kk, 4xkk iff Vx # kk, 5xy0 iff Vx = Vy,
\* 9xy0 iff Vx # Vy; each advances pc by 2 otherwise and changes no
\* register, nor I, memory, stack or sp.
C12_Skips ==
    LET kk == FieldKK(opcode)
        skip == CASE Family(opcode) = 3 -> PrevVx = kk
                  [] Family(opcode) = 4 -> PrevVx # kk
                  [] Family(opcode) = 5 -> PrevVx = PrevVy
                  [] Family(opcode) = 9 -> PrevVx # PrevVy
                  [] OTHER -> FALSE
    IN  (\/ Family(opcode) \in {3, 4}
         \/ Family(opcode) \in {5, 9} /\ FieldN(opcode) = 0) =>
            /\ result = "Ok"
            /\ cpu.pc = prev.cpu.pc + (IF skip THEN 4 ELSE 2)
            /\ OnlyPcMoved

\* C12 witness: 5080 compared two registers holding the same byte and
\* skipped
C12_Witness ==
    /\ opcode = \h5080
    /\ result = "Ok"
    /\ PrevVx = PrevVy /\ PrevVx = 255
    /\ cpu.pc = prev.cpu.pc + 4
    /\ cpu.v = prev.cpu.v

\* the keys that were down when the last call began
PrevHeld == {k \in 0 .. NUM_KEYS - 1 : prev.keypad[k]}
MaxOf(S) == CHOOSE m \in S : \A n \in S : n <= m

\* C13: Fx0A does not wait: with k keys down it advances pc by 2k + 2 in
\* the one cycle and leaves Vx at the highest key held; with none down Vx
\* is unchanged and pc advances by 2.
C13_KeyPoll ==
    (Family(opcode) = 15 /\ FieldKK(opcode) = \h0A) =>
        /\ result = "Ok"
        /\ cpu.pc = prev.cpu.pc + 2 * Cardinality(PrevHeld) + 2
        /\ cpu.v[FieldX(opcode)] = (IF PrevHeld = {} THEN PrevVx ELSE MaxOf(PrevHeld))
        /\ \A r \in 0 .. NUM_REGS - 1 : r # FieldX(opcode) => cpu.v[r] = prev.cpu.v[r]

\* C13 witness: F30A met keys 1, 2 and 15 down, advanced pc by 8 and left
\* V3 = 15
C13_Witness ==
    /\ opcode = \hF30A
    /\ result = "Ok"
    /\ PrevHeld = {1, 2, 15}
    /\ cpu.pc = prev.cpu.pc + 8
    /\ cpu.v[3] = 15

\* C13 witness of the other case: no key down, V3 kept, pc advanced by 2
C13_WitnessNoKey ==
    /\ opcode = \hF30A
    /\ result = "Ok"
    /\ PrevHeld = {}
    /\ cpu.pc = prev.cpu.pc + 2
    /\ cpu.v[3] = prev.cpu.v[3] /\ cpu.v[3] # 0

IsFx(w, kk) == Family(w) = 15 /\ FieldKK(w) = kk

\* C14: for every Vx and every I with I + 2 <= 0xFFF, Fx33 stores the
\* hundreds, tens and ones of Vx at memory[I], [I+1], [I+2]: each is a
\* digit, together they give Vx back, and no register nor I changes.
C14_Bcd ==
    LET I == prev.cpu.i
        h == ArrGet(cpu.memory, I)
        t == ArrGet(cpu.memory, I + 1)
        o == ArrGet(cpu.memory, I + 2)
    IN  (IsFx(opcode, \h33) /\ I + 2 <= \hFFF) =>
            /\ result = "Ok"
            /\ h = PrevVx \div 100
            /\ t = (PrevVx \div 10) % 10
            /\ o = PrevVx % 10
            /\ {h, t, o} \subseteq 0 .. 9
            /\ 100 * h + 10 * t + o = PrevVx
            /\ cpu.v = prev.cpu.v
            /\ cpu.i = I

\* C14 witness: F033 met V0 = 234 with I = 0x300 and stored 2, 3, 4 over
\* the bytes that were there
C14_Witness ==
    /\ opcode = \hF033
    /\ result = "Ok"
    /\ PrevVx = 234
    /\ prev.cpu.i = \h300
    /\ ArrGet(prev.cpu.memory, \h300) = 48
    /\ ArrGet(cpu.memory, \h300) = 2
    /\ ArrGet(cpu.memory, \h301) = 3
    /\ ArrGet(cpu.memory, \h302) = 4

\* C15: Fx55 (I + x <= 0xFFF) copies V0..Vx to memory[I..I+x] and changes
\* no other byte, no register and not I; a later Fx65 with the same x and
\* I, whatever the registers have become, gives V0..Vx the stored values
\* back and leaves V(x+1)..VF, I and memory as they were.
C15_StoreLoadRoundTrip ==
    LET x == FieldX(opcode)
        I == prev.cpu.i
    IN  /\ (IsFx(opcode, \h55) /\ I + x <= \hFFF) =>
               /\ result = "Ok"
               /\ \A k \in 0 .. x : ArrGet(cpu.memory, I + k) = prev.cpu.v[k]
               /\ \A a \in (DOMAIN cpu.memory \cup DOMAIN prev.cpu.memory) \ (I .. I + x) :
                      ArrGet(cpu.memory, a) = ArrGet(prev.cpu.memory, a)
               /\ cpu.v = prev.cpu.v
               /\ cpu.i = I
        /\ (/\ IsFx(opcode, \h65)
            /\ log.stored # <<>>
            /\ log.stored[1].x = x
            /\ log.stored[1].i = I) =>
               /\ result = "Ok"
               /\ \A k \in 0 .. x : cpu.v[k] = log.stored[1].v[k]
               /\ \A k \in x + 1 .. NUM_REGS - 1 : cpu.v[k] = prev.cpu.v[k]
               /\ cpu.i = I
               /\ cpu.memory = prev.cpu.memory

\* C15 witness: F265 after F255 and a change of V0 and V2: both have their
\* stored values again and V3 is as it was
C15_Witness ==
    /\ opcode = \hF265
    /\ result = "Ok"
    /\ log.stored # <<>>
    /\ log.stored[1].x = 2
    /\ prev.cpu.v[0] = 9 /\ prev.cpu.v[2] = 255
    /\ cpu.v[0] = log.stored[1].v[0] /\ cpu.v[0] # 9
    /\ cpu.v[2] = log.stored[1].v[2] /\ cpu.v[2] # 255
    /\ cpu.v[3] = prev.cpu.v[3]

\* C16: reset() followed by load(P), |P| <= 3584, leaves pc = 0x200, I, sp
\* and both timers 0, every register and stack entry 0, the font set in
\* memory[0..80), P from 0x200 on and every other byte of memory 0.
C16_ResetThenLoad ==
    LET P == log.rom
        rom == PROGRAM_START .. PROGRAM_START + Len(P) - 1
    IN  (driver = "poll" /\ cycles = 0) =>
            /\ Len(P) <= 3584
            /\ cpu.pc = \h200 /\ cpu.i = 0 /\ cpu.sp = 0
            /\ cpu.dt = 0 /\ cpu.st = 0
            /\ \A r \in 0 .. 15 : cpu.v[r] = 0 /\ cpu.stack[r] = 0
            /\ \A a \in 0 .. 79 : ArrGet(cpu.memory, a) = FONT_SET[a + 1]
            /\ \A a \in rom : ArrGet(cpu.memory, a) = P[a - PROGRAM_START + 1]
            /\ \A a \in DOMAIN cpu.memory : a \in 0 .. 79 \/ a \in rom

\* C16 witness: a fixture in use (pc = 0xABC, VF = 255, a sprite at
\* 0x300) was reset and loaded with a ROM of 3584 bytes, up to 0xFFF
C16_Witness ==
    /\ driver = "poll" /\ cycles = 0
    /\ Len(log.rom) = 3584
    /\ prev.cpu.pc = \h0ABC /\ cpu.pc = \h200
    /\ prev.cpu.v[15] = 255 /\ cpu.v[15] = 0
    /\ ArrGet(prev.cpu.memory, \h300) = 48 /\ ArrGet(cpu.memory, \h300) = log.rom[257]
    /\ ArrGet(cpu.memory, \hFFF) = log.rom[3584]

\* C17: after any sequence of press calls, is_key_down(k) is true for
\* exactly the keys of the most recent call's list; keys of earlier calls
\* that are not in it read as released.
C17_KeysReplaced ==
    \A k \in 0 .. NUM_KEYS - 1 : is_key_down(keypad, k) <=> k \in log.pressed

\* C17 witness: keys 14 and 15 were down, press([1, 15]) followed, and 14
\* reads released
C17_Witness ==
    /\ driver = "keys"
    /\ is_key_down(prev.keypad, 14) /\ is_key_down(prev.keypad, 15)
    /\ log.pressed = {1, 15}
    /\ is_key_down(keypad, 1) /\ is_key_down(keypad, 15)
    /\ ~is_key_down(keypad, 14)

\* what the other of Ex9E and ExA1 does from the state the last call met
SiblingSkip ==
    LET other == IF FieldKK(opcode) = \h9E THEN opcode + 3 ELSE opcode - 3
        r == process_opcode(prev.cpu, prev.display, prev.keypad, other, 0, TRUE)
    IN  r.cpu.pc - prev.cpu.pc

\* C18: for every x and Vx in 0..15, Ex9E advances pc by 4 iff key Vx is
\* down and by 2 otherwise, ExA1 by 4 iff it is not down and by 2
\* otherwise; exactly one of the two skips from the same state, and
\* neither changes registers or key state.
C18_KeySkips ==
    LET down == is_key_down(prev.keypad, PrevVx)
        skip == IF FieldKK(opcode) = \h9E THEN down ELSE ~down
    IN  (Family(opcode) = 14 /\ FieldKK(opcode) \in {\h9E, \hA1} /\ PrevVx <= 15) =>
            /\ result = "Ok"
            /\ cpu.pc = prev.cpu.pc + (IF skip THEN 4 ELSE 2)
            /\ {cpu.pc - prev.cpu.pc, SiblingSkip} = {2, 4}
            /\ cpu.v = prev.cpu.v
            /\ keypad = prev.keypad

\* C18 witness: E3A1 met V3 = 15 with key 15 down and did not skip
C18_Witness ==
    /\ opcode = \hE3A1
    /\ result = "Ok"
    /\ PrevVx = 15
    /\ is_key_down(prev.keypad, 15) /\ ~is_key_down(prev.keypad, 14)
    /\ cpu.pc = prev.cpu.pc + 2
    /\ SiblingSkip = 4

\* C19: over any sequence of draws, a draw reports a collision iff a pixel
\* targeted by a set bit of the sprite was lit just before that draw;
\* through Dxyn the report is VF = 1 or VF = 0.
C19_Collision ==
    (Family(opcode) = 13 /\ result = "Ok") =>
        (cpu.v[15] = 1 <=> DrwCollides) /\ cpu.v[15] \in {0, 1}

\* C19 witness: the third draw of tests::draw_detects_collisions: the byte
\* 0b00000001 drawn at (0, 0) over the lit pixel (7, 0) collides
C19_Witness ==
    /\ opcode = \hD001
    /\ result = "Ok"
    /\ PrevVx = 0
    /\ prev.cpu.i = \h302
    /\ get_pixel(prev.display, 7, 0) /\ get_pixel(prev.display, 6, 0)
    /\ cpu.v[15] = 1
    /\ ~get_pixel(display, 7, 0) /\ get_pixel(display, 6, 0)

\* the framebuffer indices the sprite of the last Dxyn has a set bit over
DrwTargets ==
    LET bits == {p \in (0 .. 7) \X (0 .. FieldN(opcode) - 1) :
                    (ArrGet(prev.cpu.memory, prev.cpu.i + p[2]) \div (2 ^ (7 - p[1]))) % 2 = 1}
    IN  {((PrevVx + p[1]) % 64) + 64 * ((PrevVy + p[2]) % 32) : p \in bits}

Lit(d) == {a \in DOMAIN d : d[a] = 1}

\* C20: a draw toggles exactly the pixels ((x + i) mod 64, (y + j) mod 32)
\* with bit i of row j set and leaves every other pixel as it was; nothing
\* outside the 64x32 framebuffer is addressed, for any x, y in 0..255.
C20_PixelEffect ==
    (Family(opcode) = 13 /\ result = "Ok") =>
        /\ Lit(display) = (Lit(prev.display) \ DrwTargets) \cup (DrwTargets \ Lit(prev.display))
        /\ DOMAIN display \subseteq 0 .. 64 * 32 - 1
        /\ DOMAIN display = Lit(display)

\* C20 witness: a 15-row sprite drawn at (254, 255) wrapped to column 0
\* and to row 0 and covered (0, 31), (1, 31), (4, 0), (5, 0) and (5, 1)
C20_Witness ==
    /\ opcode = \hD01F
    /\ result = "Ok"
    /\ PrevVx = 254 /\ PrevVy = 255
    /\ prev.cpu.i = \h300
    /\ DrwTargets = {0 + 64 * 31, 1 + 64 * 31, 4, 5, 5 + 64}
    /\ get_pixel(display, 0, 31) /\ ~get_pixel(prev.display, 0, 31)
    /\ get_pixel(display, 5, 1)

\* bit k of a byte
Bit(n, k) == (n \div (2 ^ k)) % 2

\* the registers are as before the call but for Vx, which holds val
OnlyVxSet(val) ==
    /\ cpu.v = [prev.cpu.v EXCEPT ![FieldX(opcode)] = val]
    /\ cpu.i = prev.cpu.i

\* C21: 6xkk sets Vx = kk, 7xkk sets Vx = (Vx + kk) mod 256, 8xy0 sets
\* Vx = Vy, 8xy1, 8xy2 and 8xy3 set Vx to Vx OR Vy, Vx AND Vy and Vx XOR Vy
\* bit by bit; each advances pc by 2 and changes no register other than Vx,
\* so that 7xkk leaves VF alone even when the addition wraps.
C21_FlagFreeWrites ==
    LET kk == FieldKK(opcode)
        vx == cpu.v[FieldX(opcode)]
        bitwise(n) ==
            \A k \in 0 .. 7 :
                Bit(vx, k) = 1 <=>
                    CASE n = 1 -> Bit(PrevVx, k) = 1 \/ Bit(PrevVy, k) = 1
                      [] n = 2 -> Bit(PrevVx, k) = 1 /\ Bit(PrevVy, k) = 1
                      [] n = 3 -> Bit(PrevVx, k) # Bit(PrevVy, k)
    IN  /\ Family(opcode) = 6 => OnlyVxSet(kk)
        /\ Family(opcode) = 7 => OnlyVxSet((PrevVx + kk) % 256)
        /\ Is8xy(opcode, 0) => OnlyVxSet(PrevVy)
        /\ \A n \in 1 .. 3 :
               Is8xy(opcode, n) => (vx \in 0 .. 255 /\ bitwise(n) /\ OnlyVxSet(vx))
        /\ (Family(opcode) \in {6, 7} \/ \E n \in 0 .. 3 : Is8xy(opcode, n)) =>
               (result = "Ok" /\ cpu.pc = prev.cpu.pc + 2)

\* C21 witness: 7180 added 0x80 to V1 = 0x81: V1 wrapped to 1 and VF kept
\* the 0x7F it held
C21_Witness ==
    /\ opcode = \h7180
    /\ result = "Ok"
    /\ PrevVx = 129 /\ cpu.v[1] = 1
    /\ prev.cpu.v[15] = 127 /\ cpu.v[15] = 127
    /\ cpu.pc = prev.cpu.pc + 2

\* the calls outstanding never exceeded k around the last cycle, which was
\* neither a return with no call outstanding nor a call beyond the k-th
WellFormed(k) ==
    /\ Len(callsites) <= k
    /\ Len(prev.callsites) <= k
    /\ ~(opcode = \h00EE /\ Len(prev.callsites) = 0)
    /\ ~(Family(opcode) = 2 /\ Len(prev.callsites) >= k)

\* a 00EE or 2nnn indexed the stack outside its 16 entries
StackFault == result = "Panic" /\ (opcode = \h00EE \/ Family(opcode) = 2)

\* C22 as stated: run from reset, a program that never returns with no call
\* outstanding and has at most 16 calls outstanding keeps sp within [0, 16)
\* after every cycle and indexes the stack within its 16 entries.
C22_SpBound ==
    WellFormed(16) => (cpu.sp \in 0 .. STACK_SIZE - 1 /\ ~StackFault)

\* C22 amended: the same with at most 15 calls outstanding at any time.
C22_SpBoundFifteen ==
    WellFormed(15) => (cpu.sp \in 0 .. STACK_SIZE - 1 /\ ~StackFault)

\* C22 witness: with 15 calls outstanding a return came back to the last
\* call site and left sp = 14
C22_Witness ==
    /\ driver = "poll"
    /\ opcode = \h00EE
    /\ result = "Ok"
    /\ Len(prev.callsites) = 15 /\ prev.cpu.sp = 15
    /\ cpu.sp = 14
    /\ cpu.pc = \h200 + 4 * 14 + 2

\* C23: the tick comes after the instruction's own effect: a cycle that
\* executes Fx15 ends with delay_timer = Vx - 1, or 0 when Vx = 0, Fx18
\* likewise with sound_timer, and Fx07 puts in Vx the delay_timer the cycle
\* started with.
C23_TimerOrdering ==
    /\ IsFx(opcode, \h15) => (result = "Ok" /\ cpu.dt = Max0(PrevVx - 1))
    /\ IsFx(opcode, \h18) => (result = "Ok" /\ cpu.st = Max0(PrevVx - 1))
    /\ IsFx(opcode, \h07) =>
           (result = "Ok" /\ cpu.v[FieldX(opcode)] = prev.cpu.dt)

\* C23 witness: F715 met V7 = 255 and a delay timer at 0 and left it at 254
C23_Witness ==
    /\ opcode = \hF715
    /\ result = "Ok"
    /\ PrevVx = 255
    /\ prev.cpu.dt = 0
    /\ cpu.dt = 254

\* the loop of main is going round: no Quit event has come and no cycle
\* has panicked on a failed dispatch
LoopRuns == driver \notin {"exit", "dead"}

\* C24: if the driver keeps invoking cycles, every cycle dispatches
\* successfully and from some point on no Fx15 is executed, then
\* delay_timer eventually is 0 and stays 0, at the latest from the 255th
\* cycle after the last Fx15; the same holds of sound_timer and Fx18.
C24_TimersRunOut ==
    /\ ([]LoopRuns /\ <>[](~IsFx(opcode, \h15))) => <>[](cpu.dt = 0)
    /\ ([]LoopRuns /\ <>[](~IsFx(opcode, \h18))) => <>[](cpu.st = 0)
    /\ [](log.quiet.dt >= 255 => cpu.dt = 0)
    /\ [](log.quiet.st >= 255 => cpu.st = 0)

\* C24 witness: 254 cycles after an Fx15 that loaded 255, the delay timer
\* went from 1 to 0, while the sound timer, loaded a cycle later, is at 1
C24_Witness ==
    /\ driver = "poll"
    /\ result = "Ok"
    /\ log.quiet.dt = 254
    /\ prev.cpu.dt = 1 /\ cpu.dt = 0
    /\ log.quiet.st = 253 /\ cpu.st = 1

\* init_cpu has reset the Cpu
AfterReset == driver \in {"load", "poll", "cycle", "exit", "dead"}

\* C25 as stated: from reset on, after any sequence of cycles of any
\* program, I holds a 12-bit value.
C25_IndexWidth == AfterReset => cpu.i <= \hFFF

\* C25 amended: from reset on, I holds a 12-bit value after any sequence of
\* cycles in which no Fx1E has been executed.
C25_IndexWidthNoAdd == (AfterReset /\ ~log.index_added) => cpu.i <= \hFFF

\* C25 witness: after AFFF and Fx29 with Vx = 255, and no Fx1E, I is the
\* largest value Fx29 gives
C25_Witness ==
    /\ driver = "poll"
    /\ result = "Ok"
    /\ IsFx(opcode, \h29)
    /\ PrevVx = 255
    /\ ~log.index_added
    /\ prev.cpu.i = \hFFF /\ cpu.i = 1275

\* C26: for every x, kk and random byte, after Cxkk the register Vx has no
\* bit set outside kk (so Vx <= kk, and Vx = 0 when kk = 0), pc is 2 higher
\* and no other register changes, VF included.
C26_RndMasked ==
    LET kk == FieldKK(opcode)
        vx == cpu.v[FieldX(opcode)]
    IN  Family(opcode) = 12 =>
            /\ result = "Ok"
            /\ vx \in 0 .. 255
            /\ \A k \in 0 .. 7 : Bit(vx, k) = 1 => Bit(kk, k) = 1
            /\ vx <= kk
            /\ kk = 0 => vx = 0
            /\ cpu.pc = prev.cpu.pc + 2
            /\ OnlyVxSet(vx)

\* C26 witness: C35A (kk = 0b01011010) kept of some random byte the bits
\* 0b01001000 and left VF as it was
C26_Witness ==
    /\ opcode = \hC35A
    /\ result = "Ok"
    /\ cpu.v[3] = 72
    /\ prev.cpu.v[3] # 72
    /\ cpu.v[15] = prev.cpu.v[15] /\ cpu.v[15] # 0
    /\ cpu.pc = prev.cpu.pc + 2

\* the call process_opcode(w) would have made of the state a cycle found
Executed(w, random) ==
    \E checks \in BOOLEAN :
    LET r == process_opcode(prev.cpu, prev.display, prev.keypad, w, random, checks)
    IN  /\ cpu = r.cpu
        /\ display = r.display
        /\ result = r.res
        /\ keypad = prev.keypad

\* C27: a cycle that fetches executes the word memory[pc] * 256 +
\* memory[pc + 1] read at the pc it starts with, and nothing else: the
\* machine is left as process_opcode leaves it for that word; after
\* reset() and load(P) with at least 2 bytes the first cycle executes
\* P[0] * 256 + P[1].
C27_Fetch ==
    (driver \in {"poll", "dead"} /\ opcode # -1) =>
        LET pc == prev.cpu.pc
            word == ArrGet(prev.cpu.memory, pc) * 256 + ArrGet(prev.cpu.memory, pc + 1)
        IN  /\ opcode = word
            /\ \E random \in RandomFor(word) : Executed(word, random)
            /\ (cycles = 1 /\ Len(log.rom) >= 2) =>
                   opcode = log.rom[1] * 256 + log.rom[2]

\* C27 witness: the first cycle after a ROM that starts with the bytes
\* 0x12, 0x04 executed 0x1204 and jumped to 0x204
C27_Witness ==
    /\ driver = "poll"
    /\ cycles = 1
    /\ log.rom[1] = \h12 /\ log.rom[2] = \h04
    /\ prev.cpu.pc = PROGRAM_START
    /\ opcode = \h1204
    /\ cpu.pc = \h204

\* the framebuffer indices under the set bits of the sprite of a draw
Covered(dr) ==
    LET bits == {p \in (0 .. 7) \X (1 .. Len(dr.sprite)) :
                    Bit(dr.sprite[p[2]], 7 - p[1]) = 1}
    IN  {((dr.x + p[1]) % WIDTH) + WIDTH * ((dr.y + p[2] - 1) % HEIGHT) : p \in bits}

\* the last two draws put the same sprite at the same position, the second
\* on the framebuffer the first left
DrawnTwice ==
    /\ Len(log.drawn) = 2
    /\ log.drawn[1].x = log.drawn[2].x
    /\ log.drawn[1].y = log.drawn[2].y
    /\ log.drawn[1].sprite = log.drawn[2].sprite
    /\ log.drawn[2].before = log.drawn[1].after

\* C28 as stated: drawing the same sprite twice at the same position
\* restores the framebuffer as it was before the first draw, and the second
\* draw reports a collision whenever the sprite has a set bit.
C28_DrawTwice ==
    DrawnTwice =>
        /\ log.drawn[2].after = log.drawn[1].before
        /\ Covered(log.drawn[2]) # {} => log.drawn[2].collision

\* C28 amended: drawing the same sprite twice at the same position restores
\* the framebuffer, and the second draw reports a collision exactly when
\* some pixel under a set bit of the sprite was unlit before the first draw.
C28_DrawTwiceUnlit ==
    DrawnTwice =>
        /\ log.drawn[2].after = log.drawn[1].before
        /\ log.drawn[2].collision <=>
               (Covered(log.drawn[2]) \ Lit(log.drawn[1].before) # {})

\* C28 witness: a sprite drawn over unlit pixels of a framebuffer with
\* other pixels lit, then drawn again: the second draw collided and put
\* the framebuffer back
C28_Witness ==
    /\ DrawnTwice
    /\ Family(opcode) = 13
    /\ Lit(log.drawn[1].before) # {}
    /\ ~log.drawn[1].collision
    /\ log.drawn[1].after # log.drawn[1].before
    /\ log.drawn[2].collision
    /\ display = log.drawn[1].before
====
